---------------------------- MODULE Spec2Model ----------------------------
(***************************************************************************)
(* A model of word_generator.py: parse_words, build_model,                 *)
(* length_distribution, generate_word and generate_words.                  *)
(*                                                                         *)
(* A character is a string: an ASCII character stands for itself and      *)
(* "U+XXXX" names the code point XXXX.  A Python str is a sequence of      *)
(* characters.  Python's None is the value None below.                     *)
(*                                                                         *)
(* Floats: the length distribution holds floats in the source.  They are   *)
(* kept here in fixed point, as integers counting 1/Scale; the square      *)
(* root is rounded down to that grid.  A weight that is positive in the    *)
(* source stays positive here as long as the word list holds at most       *)
(* Scale words.                                                            *)
(*                                                                         *)
(* random.choices is the one of Python 3.9 and later: it raises            *)
(* ValueError when the weights' total is not positive.                     *)
(***************************************************************************)
EXTENDS Integers, Sequences, FiniteSets, TLC

VARIABLES
    text,            \* generate_words' argument: the source text, or None
    count,           \* generate_words' argument: the number of words asked for
    CONTEXT_LENGTH,  \* the module global, set once before any run (line 23, 227)
    pc,              \* pc[r]: where run r of generate_words stands
    wordlist,        \* wordlist[r]: parse_words' list, in the order the run got it
    model,           \* model[r]: context -> list of <<letter, count>>, in insertion order
    distribution,    \* distribution[r]: the cumulative list, indexed from 0
    word,            \* word[r]: generate_word's in-progress string
    generated,       \* generated[r]: generate_words' accumulator
    sampled          \* sampled[r]: whether run r has called generate_word

vars == <<text, count, CONTEXT_LENGTH, pc, wordlist, model, distribution,
          word, generated, sampled>>

---------------------------------------------------------------------------
(* Bounds of the model. *)

\* The longest text that InitModel draws.
MaxTextLen == 7

\* The longest text that Init, InitParse and InitDet draw.
MaxShortLen == 5

\* The largest count asked of generate_words.
MaxCount == 2

\* generate_word's in-progress string (initiator included) is not extended
\* once it holds this many characters.
MaxGen == 5

\* random.random() returns one of 0/RandDen .. (RandDen-1)/RandDen.
RandDen == 4

\* The fixed-point grid: a float x is kept as the integer part of x * Scale.
Scale == 100

\* The module's default for CONTEXT_LENGTH.
DefaultContextLength == 2

---------------------------------------------------------------------------
(* Constants of the program. *)

INITIATOR == "#"
TERMINATOR == "$"

None == <<"None">>

\* The two runs of the program the model can hold: run 1 always, run 2 only
\* when a second process is started on the same input.
Runs == {1, 2}

\* The values --context_length is given in the model.
ContextLengths == 1..DefaultContextLength

---------------------------------------------------------------------------
(* Python's str operations. *)

\* s[-n:] for n >= 0: s[-0:] is s[0:], the whole string.
PySuffix(s, n) ==
    IF n = 0 \/ Len(s) <= n THEN s ELSE SubSeq(s, Len(s) - n + 1, Len(s))

\* s[:i]
PyPrefix(s, i) == SubSeq(s, 1, i)

RECURSIVE LStrip(_, _)
LStrip(s, chars) ==
    IF s # <<>> /\ Head(s) \in chars THEN LStrip(Tail(s), chars) ELSE s

RECURSIVE RStrip(_, _)
RStrip(s, chars) ==
    IF s # <<>> /\ s[Len(s)] \in chars
    THEN RStrip(SubSeq(s, 1, Len(s) - 1), chars)
    ELSE s

\* s.strip(chars)
Strip(s, chars) == RStrip(LStrip(s, chars), chars)

\* x in list
InList(x, list) == \E i \in DOMAIN list : list[i] = x

\* set(list)
SetOf(list) == {list[i] : i \in DOMAIN list}

\* list(set): the elements of S once each, in any one of the orders a
\* process's string hashing can give it.
Orderings(S) ==
    {f \in [1..Cardinality(S) -> S] : \A i, j \in DOMAIN f : i # j => f[i] # f[j]}

---------------------------------------------------------------------------
(* unicodedata and str methods on the characters of the model. *)

\* unicodedata.category(char)
Category(char) ==
    CASE char \in {"a", "b", "c", "d", "e", "g", "o", "s", "t", "U+00E9"} -> "Ll"
      [] char = "B" -> "Lu"
      [] char = "U+0301" -> "Mn"
      [] char = "1" -> "Nd"
      [] char = "-" -> "Pd"
      [] char = "U+2019" -> "Pf"
      [] char = "U+2018" -> "Pi"
      [] char = " " -> "Zs"
      [] char = "$" -> "Sc"
      [] OTHER -> "Po"

\* unicodedata.normalize('NFKD', char): e-acute decomposes into e and the
\* combining acute accent; the other characters of the model are unchanged.
NFKD(char) == IF char = "U+00E9" THEN <<"e", "U+0301">> ELSE <<char>>

\* char.lower()
Lower(char) == IF char = "B" THEN "b" ELSE char

\* char.translate(UNICODE_FIXES)
UnicodeFix(char) == IF char \in {"U+2018", "U+2019"} THEN "'" ELSE char

RECURSIVE Normalize(_)
Normalize(s) == IF s = <<>> THEN <<>> ELSE NFKD(Head(s)) \o Normalize(Tail(s))

\* The length of the run of hyphens s starts with.
RECURSIVE HyphenRun(_)
HyphenRun(s) ==
    IF s # <<>> /\ Head(s) = "-" THEN 1 + HyphenRun(Tail(s)) ELSE 0

\* re.sub(r'-{2,}', ' ', s)
RECURSIVE CollapseHyphens(_)
CollapseHyphens(s) ==
    IF s = <<>> THEN <<>>
    ELSE LET n == HyphenRun(s)
         IN  IF n >= 2
             THEN <<" ">> \o CollapseHyphens(SubSeq(s, n + 1, Len(s)))
             ELSE <<Head(s)>> \o CollapseHyphens(Tail(s))

\* The test of lines 58-60: the characters the filter keeps.
Kept(char) ==
    \/ Category(char) \in {"Ll", "Lu", "Lt", "Lm", "Lo"}
    \/ Category(char) = "Mn"
    \/ char \in {"'", "-"}

\* Lines 55-65: every other character becomes a space.
StripSpecial(s) == [i \in DOMAIN s |-> IF Kept(s[i]) THEN s[i] ELSE " "]

\* s.split(): the maximal runs of characters that are not white space.
RECURSIVE Split(_, _)
Split(s, token) ==
    IF s = <<>> THEN (IF token = <<>> THEN <<>> ELSE <<token>>)
    ELSE IF Category(Head(s)) = "Zs"
         THEN (IF token = <<>> THEN <<>> ELSE <<token>>) \o Split(Tail(s), <<>>)
         ELSE Split(Tail(s), Append(token, Head(s)))

\* Lines 48-51.
FixUnicode(s) ==
    LET normal == Normalize(s)
        lower == [i \in DOMAIN normal |-> Lower(normal[i])]
        fixed == [i \in DOMAIN lower |-> UnicodeFix(lower[i])]
    IN  CollapseHyphens(fixed)

\* Line 73 with >= for >.
LongEnoughOrEqual(w, contextLength) == Len(w) >= contextLength

\* Line 73: the words that are kept.
LongEnough(w, contextLength) == Len(w) > contextLength

\* Lines 69-74: rawlist and the words appended to wordlist, as a list in
\* the order of rawlist.
RECURSIVE KeepWords(_, _)
KeepWords(rawlist, contextLength) ==
    IF rawlist = <<>> THEN <<>>
    ELSE LET w == Strip(Head(rawlist), {"-"})
         IN  (IF LongEnough(w, contextLength) THEN <<w>> ELSE <<>>)
                 \o KeepWords(Tail(rawlist), contextLength)

\* Line 76: wordlist = list(set(wordlist)), every order it can come in.
Dedup(kept) == Orderings(SetOf(kept))

\* parse_words(t) for a str t: the lists it can return.
parse_words(t, contextLength) ==
    LET tokens == Split(StripSpecial(FixUnicode(t)), <<>>)
        raws == Orderings(SetOf(tokens))
    IN  UNION {Dedup(KeepWords(rawlist, contextLength)) : rawlist \in raws}

---------------------------------------------------------------------------
(* build_model *)

\* Lines 107-112 with the count set to 1 and never incremented.
AddTransitionNoIncrement(m, context, letter) ==
    LET m1 == IF context \in DOMAIN m THEN m
              ELSE [c \in DOMAIN m \cup {context} |->
                       IF c = context THEN <<>> ELSE m[c]]
        row == m1[context]
    IN  IF \E i \in DOMAIN row : row[i][1] = letter THEN m1
        ELSE [m1 EXCEPT ![context] = Append(row, <<letter, 1>>)]

\* Lines 107-112: one more occurrence of letter after context.  A row of
\* the model lists <<letter, count>> in the order the letters were first
\* seen, which is the order a dict iterates in.
AddTransition(m, context, letter) ==
    LET m1 == IF context \in DOMAIN m THEN m
              ELSE [c \in DOMAIN m \cup {context} |->
                       IF c = context THEN <<>> ELSE m[c]]
        row == m1[context]
        row1 == IF \E i \in DOMAIN row : row[i][1] = letter THEN row
                ELSE Append(row, <<letter, 0>>)
        row2 == [i \in DOMAIN row1 |->
                    IF row1[i][1] = letter
                    THEN <<letter, row1[i][2] + 1>>
                    ELSE row1[i]]
    IN  [m1 EXCEPT ![context] = row2]

\* Line 104 with word[:i + 1] for word[:i].
ContextAtOffByOne(bounded, i, contextLength) ==
    PySuffix(PyPrefix(bounded, i + 1), contextLength)

\* Line 104: context = word[:i][-CONTEXT_LENGTH:], for the bounded word and
\* Python's index i (the letter is bounded[i + 1] here).
ContextAt(bounded, i, contextLength) ==
    PySuffix(PyPrefix(bounded, i), contextLength)

\* Lines 102-112: the positions i, i+1, ... of one bounded word.
RECURSIVE AddWord(_, _, _, _)
AddWord(m, bounded, i, contextLength) ==
    IF i >= Len(bounded) THEN m
    ELSE AddWord(AddTransition(m, ContextAt(bounded, i, contextLength),
                               bounded[i + 1]),
                 bounded, i + 1, contextLength)

\* Lines 98-112: the words of the list in order, onto the model m.
RECURSIVE AddWords(_, _, _)
AddWords(m, words, contextLength) ==
    IF words = <<>> THEN m
    ELSE AddWords(AddWord(m, <<INITIATOR>> \o Head(words) \o <<TERMINATOR>>,
                          1, contextLength),
                  Tail(words), contextLength)

\* build_model over wordlist[:-1]: the last word of the list is left out.
build_model_but_last(words, contextLength) ==
    AddWords(<<>>, SubSeq(words, 1, Len(words) - 1), contextLength)

\* build_model(wordlist): the empty dict is the function with no domain.
build_model(words, contextLength) == AddWords(<<>>, words, contextLength)

---------------------------------------------------------------------------
(* length_distribution *)

\* Lines 131-135: distribution[length].
LengthCount(words, length) ==
    Cardinality({i \in DOMAIN words : Len(words[i]) = length})

\* max(distribution.keys())
MaxLength(words) ==
    CHOOSE n \in {Len(words[i]) : i \in DOMAIN words} :
        \A i \in DOMAIN words : Len(words[i]) <= n

\* x ** 0.5 for a fixed-point x in 0 .. 1, rounded down to the grid: the
\* largest s with (s / Scale) ^ 2 <= x / Scale.
SquareRoot(x) ==
    CHOOSE s \in 0..Scale : s * s <= x * Scale /\ (s + 1) * (s + 1) > x * Scale

\* Line 145: (distribution[i] / sum(distribution.values())) ** 0.5
Increment(words, i) ==
    SquareRoot((LengthCount(words, i) * Scale) \div Len(words))

\* Lines 140-146 without the running sum: the entry is the increment alone.
NotCumulative(words, i) ==
    IF i = 0 THEN 0
    ELSE IF LengthCount(words, i) > 0 THEN Increment(words, i) ELSE 0

\* Lines 140-146: the running sum up to index i.
RECURSIVE Cumulative(_, _)
Cumulative(words, i) ==
    IF i = 0 THEN 0
    ELSE Cumulative(words, i - 1)
            + (IF LengthCount(words, i) > 0 THEN Increment(words, i) ELSE 0)

\* length_distribution(wordlist) for a list that is not empty: the list
\* cumulative, indexed from 0 as in the source.
length_distribution(words) ==
    [i \in 0..MaxLength(words) |-> Cumulative(words, i)]

---------------------------------------------------------------------------
(* generate_word *)

\* TERMINATOR in weights.keys()
HasTerminator(row) == \E i \in DOMAIN row : row[i][1] = TERMINATOR

\* Lines 171-174: distribution[len(word)], or distribution[-1] past its end.
TerminatorFactor(n, dist) ==
    IF n < Cardinality(DOMAIN dist) THEN dist[n]
    ELSE dist[Cardinality(DOMAIN dist) - 1]

\* Lines 172, 174: weights[TERMINATOR] *= factor.  The factor is a fixed-point
\* number, so the other counts are brought to the same grid.
Boost(row, factor) ==
    [i \in DOMAIN row |->
        IF row[i][1] = TERMINATOR
        THEN <<TERMINATOR, row[i][2] * factor>>
        ELSE <<row[i][1], row[i][2] * Scale>>]

\* Lines 168-174 without weights.copy(): the boost is written to the row of
\* the model itself.
LocalWeightsNoCopy(m, context, n, dist) ==
    IF HasTerminator(m[context])
    THEN LET factor == TerminatorFactor(n, dist)
         IN  [weights |-> Boost(m[context], factor),
              model |-> [m EXCEPT ![context] =
                            [i \in DOMAIN m[context] |->
                                IF m[context][i][1] = TERMINATOR
                                THEN <<TERMINATOR,
                                       (m[context][i][2] * factor) \div Scale>>
                                ELSE m[context][i]]]]
    ELSE [weights |-> m[context], model |-> m]

\* Lines 168-174: the weights the draw uses, and the model afterwards.  The
\* boost is applied to weights.copy(), so the model keeps its row.
LocalWeights(m, context, n, dist) ==
    IF HasTerminator(m[context])
    THEN [weights |-> Boost(m[context], TerminatorFactor(n, dist)), model |-> m]
    ELSE [weights |-> m[context], model |-> m]

\* itertools.accumulate(weights)[i - 1]
RECURSIVE CumWeight(_, _)
CumWeight(weights, i) ==
    IF i = 0 THEN 0 ELSE CumWeight(weights, i - 1) + weights[i][2]

\* The total random.choices tests before it draws.
Total(weights) == CumWeight(weights, Len(weights))

\* random.choices(population, weights)[0] when random() returns k / RandDen:
\* bisect(cum_weights, random() * total, 0, n - 1), the number of the first
\* n - 1 running sums that are not above the point drawn.
Choice(weights, k) ==
    1 + Cardinality({i \in 1..(Len(weights) - 1) :
                        CumWeight(weights, i) * RandDen <= k * Total(weights)})

\* Lines 166-175: one turn of generate_word's loop for run r, random()
\* returning k / RandDen.
LoopTurn(r, k) ==
    LET context == PySuffix(word[r], CONTEXT_LENGTH)
    IN  IF context \notin DOMAIN model[r]
        THEN [pc |-> "KeyError", word |-> word[r], model |-> model[r]]
        ELSE LET local == LocalWeights(model[r], context, Len(word[r]),
                                       distribution[r])
             IN  IF Total(local.weights) <= 0
                 THEN [pc |-> "ValueError", word |-> word[r],
                       model |-> local.model]
                 ELSE [pc |-> "generate_word",
                       word |-> Append(word[r],
                                       local.weights[Choice(local.weights, k)][1]),
                       model |-> local.model]

---------------------------------------------------------------------------
(* generate_words *)

\* Line 206 without its second test.
IsRepeatOfWordlist(candidate, words, accepted) == InList(candidate, words)

\* Line 206: word in wordlist or word in generated
IsRepeat(candidate, words, accepted) ==
    InList(candidate, words) \/ InList(candidate, accepted)

\* Line 203 with <= for <.
MoreWantedOrEqual(accepted, n) == Len(accepted) <= n

\* Line 203: len(generated) < count
MoreWanted(accepted, n) == Len(accepted) < n

\* A run that has ended: returned a list, returned None, or raised.
Ended(r) == pc[r] \in {"idle", "returned", "null", "ValueError", "KeyError"}

\* A run inside generate_word's loop, about to draw.
Drawing(r) ==
    /\ pc[r] = "generate_word"
    /\ word[r][Len(word[r])] # TERMINATOR

\* Lines 191-194: parse_words returns None for no text, and otherwise its
\* list in one of the orders it can have.
ParseWords(r) ==
    /\ pc[r] = "parse_words"
    /\ IF text = None
       THEN /\ pc' = [pc EXCEPT ![r] = "null"]
            /\ UNCHANGED wordlist
       ELSE /\ \E list \in parse_words(text, CONTEXT_LENGTH) :
                   wordlist' = [wordlist EXCEPT ![r] = list]
            /\ pc' = [pc EXCEPT ![r] = "build_model"]
    /\ UNCHANGED <<text, count, CONTEXT_LENGTH, model, distribution, word,
                   generated, sampled>>

\* Line 196.
BuildModel(r) ==
    /\ pc[r] = "build_model"
    /\ model' = [model EXCEPT ![r] = build_model(wordlist[r], CONTEXT_LENGTH)]
    /\ pc' = [pc EXCEPT ![r] = "length_distribution"]
    /\ UNCHANGED <<text, count, CONTEXT_LENGTH, wordlist, distribution, word,
                   generated, sampled>>

\* Lines 199-202: max() of no keys raises ValueError.
LengthDistribution(r) ==
    /\ pc[r] = "length_distribution"
    /\ IF wordlist[r] = <<>>
       THEN /\ pc' = [pc EXCEPT ![r] = "ValueError"]
            /\ UNCHANGED distribution
       ELSE /\ distribution' =
                   [distribution EXCEPT ![r] = length_distribution(wordlist[r])]
            /\ pc' = [pc EXCEPT ![r] = "while"]
    /\ generated' = [generated EXCEPT ![r] = <<>>]
    /\ UNCHANGED <<text, count, CONTEXT_LENGTH, wordlist, model, word, sampled>>

\* Lines 203-204, 212 and 164: the loop's test, then either the call of
\* generate_word or the return.
WhileLoop(r) ==
    /\ pc[r] = "while"
    /\ IF MoreWanted(generated[r], count)
       THEN /\ word' = [word EXCEPT ![r] = <<INITIATOR>>]
            /\ sampled' = [sampled EXCEPT ![r] = TRUE]
            /\ pc' = [pc EXCEPT ![r] = "generate_word"]
       ELSE /\ pc' = [pc EXCEPT ![r] = "returned"]
            /\ UNCHANGED <<word, sampled>>
    /\ UNCHANGED <<text, count, CONTEXT_LENGTH, wordlist, model, distribution,
                   generated>>

\* Lines 166-175: every run that is drawing takes the same value of the
\* random source, its draw number being the same in each.  The runs that
\* are not drawing have ended.
GenerateWordStep ==
    /\ \E r \in Runs : Drawing(r)
    /\ \A r \in Runs : Ended(r) \/ (Drawing(r) /\ Len(word[r]) < MaxGen)
    /\ \E k \in 0..(RandDen - 1) :
          /\ pc' = [r \in Runs |-> IF Drawing(r) THEN LoopTurn(r, k).pc ELSE pc[r]]
          /\ word' = [r \in Runs |->
                         IF Drawing(r) THEN LoopTurn(r, k).word ELSE word[r]]
          /\ model' = [r \in Runs |->
                          IF Drawing(r) THEN LoopTurn(r, k).model ELSE model[r]]
    /\ UNCHANGED <<text, count, CONTEXT_LENGTH, wordlist, distribution,
                   generated, sampled>>

\* Lines 177 and 206-210: generate_word returns the stripped word, which is
\* discarded or appended.
AcceptOrDiscard(r) ==
    /\ pc[r] = "generate_word"
    /\ word[r][Len(word[r])] = TERMINATOR
    /\ LET candidate == Strip(word[r], {INITIATOR, TERMINATOR})
       IN  generated' =
               [generated EXCEPT ![r] =
                   IF IsRepeat(candidate, wordlist[r], generated[r])
                   THEN generated[r]
                   ELSE Append(generated[r], candidate)]
    /\ pc' = [pc EXCEPT ![r] = "while"]
    /\ UNCHANGED <<text, count, CONTEXT_LENGTH, wordlist, model, distribution,
                   word, sampled>>

Next ==
    \/ \E r \in Runs : ParseWords(r)
    \/ \E r \in Runs : BuildModel(r)
    \/ \E r \in Runs : LengthDistribution(r)
    \/ \E r \in Runs : WhileLoop(r)
    \/ GenerateWordStep
    \/ \E r \in Runs : AcceptOrDiscard(r)

---------------------------------------------------------------------------
(* The inputs. *)

\* The texts of at most n characters over chars.
Texts(chars, n) == UNION {[1..len -> chars] : len \in 0..n}

PlainChars == {"a", "b", " "}

RawChars == {"B", "-", "U+2019", "U+00E9", "1", " "}

\* The example text of the documentation.
ExampleText ==
    <<"c", "a", "t", " ", "c", "a", "t", "s", " ",
      "d", "o", "g", " ", "d", "o", "g", "s">>

\* generate_words(text, count) is called in run 1, and in run 2 as well
\* when second holds.
Start(texts, counts, second) ==
    /\ text \in texts
    /\ count \in counts
    /\ CONTEXT_LENGTH \in ContextLengths
    /\ pc = [r \in Runs |-> IF r = 1 \/ second THEN "parse_words" ELSE "idle"]
    /\ wordlist = [r \in Runs |-> <<>>]
    /\ model = [r \in Runs |-> <<>>]
    /\ distribution = [r \in Runs |-> <<>>]
    /\ word = [r \in Runs |-> <<>>]
    /\ generated = [r \in Runs |-> <<>>]
    /\ sampled = [r \in Runs |-> FALSE]

\* One run on a short text of letters and spaces, for every count.
Init == Start(Texts(PlainChars, MaxShortLen) \cup {None}, 0..MaxCount, FALSE)

Spec == Init /\ [][Next]_vars

\* One run on a longer text of letters and spaces, for one word.
InitModel == Start(Texts(PlainChars, MaxTextLen), {1}, FALSE)

SpecModel == InitModel /\ [][Next]_vars

\* One run on a text of every kind of character.
InitParse == Start(Texts(RawChars, MaxShortLen) \cup {None}, {1}, FALSE)

SpecParse == InitParse /\ [][Next]_vars

\* One run on the example text.
InitExample == Start({ExampleText}, 0..MaxCount, FALSE)

SpecExample == InitExample /\ [][Next]_vars

\* Two runs on the same text with the same random source.
InitDet == Start(Texts(PlainChars, MaxShortLen), {1}, TRUE)

SpecDet == InitDet /\ [][Next]_vars

---------------------------------------------------------------------------
(* The claims. *)

\* The runs whose model has been built.
Built(r) ==
    pc[r] \in {"length_distribution", "while", "generate_word", "returned",
               "ValueError", "KeyError"}

\* The runs whose length distribution has been computed.
Estimated(r) ==
    /\ pc[r] \in {"while", "generate_word", "returned", "ValueError", "KeyError"}
    /\ wordlist[r] # <<>>

\* The word generate_word is about to return in run r.
Candidate(r) == Strip(word[r], {INITIATOR, TERMINATOR})

\* Run r holds a finished candidate that generate_words has not yet tested.
Finished(r) ==
    /\ pc[r] = "generate_word"
    /\ word[r][Len(word[r])] = TERMINATOR

\* The context generate_word looks up in run r.
LookedUp(r) == PySuffix(word[r], CONTEXT_LENGTH)

NoCollision(r) ==
    \A i \in DOMAIN generated[r] :
        /\ ~ InList(generated[r][i], wordlist[r])
        /\ \A j \in DOMAIN generated[r] : i # j => generated[r][i] # generated[r][j]

DiscardKeeps(r) ==
    (/\ Finished(r)
     /\ pc'[r] = "while"
     /\ InList(Candidate(r), wordlist[r]) \/ InList(Candidate(r), generated[r]))
        => generated'[r] = generated[r]

\* C1: at every moment of generate_words the accumulator holds no word of
\* the word set and no word twice, and the step that tests a candidate
\* which is in the word set or already in the accumulator leaves the
\* accumulator as it was.
C1_NoCollision ==
    /\ [](\A r \in Runs : NoCollision(r))
    /\ [][\A r \in Runs : DiscardKeeps(r)]_vars

\* C1's case: a finished candidate that equals an element the accumulator
\* already holds.
C1_Witness ==
    \E r \in Runs : Finished(r) /\ InList(Candidate(r), generated[r])

\* The model as a dict compares: context -> letter -> count, the order of
\* the letters forgotten.
ModelTable(m) == [c \in DOMAIN m |-> SetOf(m[c])]

\* C2 as stated: two runs on the same text, context length and random source
\* that have both returned have equal model tables and equal results, in
\* whatever order each run got its word list.
C2_SameResults ==
    (pc[1] = "returned" /\ pc[2] = "returned")
        => /\ ModelTable(model[1]) = ModelTable(model[2])
           /\ generated[1] = generated[2]

\* C2 as amended: the two runs' model tables are equal as mappings from
\* context to letter to count in whatever order each got its word list, and
\* their results are equal when both got the word list in the same order.
C2_SameTables ==
    /\ (Built(1) /\ Built(2)) => ModelTable(model[1]) = ModelTable(model[2])
    /\ (pc[1] = "returned" /\ pc[2] = "returned" /\ wordlist[1] = wordlist[2])
          => generated[1] = generated[2]

\* C2's case: both runs have returned a word, having got the word list in
\* different orders.
C2_Witness ==
    /\ pc[1] = "returned" /\ pc[2] = "returned"
    /\ wordlist[1] # wordlist[2]
    /\ generated[1] # <<>>

\* C3: with an empty or absent text the run never gets past parse_words
\* other than by returning None: no model is built, no distribution is
\* estimated, nothing is sampled and nothing is raised.
C3_EmptyIsNull ==
    \A r \in Runs :
        (text = None \/ text = <<>>) => pc[r] \in {"idle", "parse_words", "null"}

\* The candidate letters of context c in run r.
Letters(r, c) == {model[r][c][i][1] : i \in DOMAIN model[r][c]}

\* Every context a draw can lead to from a context of the model is in the
\* model, and so is the first one.
Closed(r) ==
    /\ <<INITIATOR>> \in DOMAIN model[r]
    /\ \A c \in DOMAIN model[r] :
          \A letter \in Letters(r, c) \ {TERMINATOR} :
              PySuffix(Append(c, letter), CONTEXT_LENGTH) \in DOMAIN model[r]

\* Replaying the word w letter by letter finds every context and letter.
Replays(r, w) ==
    \A i \in 0..Len(w) :
        LET prefix == <<INITIATOR>> \o SubSeq(w, 1, i)
            context == PySuffix(prefix, CONTEXT_LENGTH)
        IN  /\ context \in DOMAIN model[r]
            /\ (IF i < Len(w) THEN w[i + 1] ELSE TERMINATOR) \in Letters(r, context)

\* C4: for a word list that is not empty, the context generate_word looks
\* up is a key of the model at every draw, whatever was drawn before; no
\* run ends in KeyError; and every word of the list replays.
C4_ContextPresent ==
    \A r \in Runs :
        /\ (Drawing(r) => LookedUp(r) \in DOMAIN model[r])
        /\ pc[r] # "KeyError"
        /\ (Built(r) /\ wordlist[r] # <<>>)
              => /\ Closed(r)
                 /\ \A i \in DOMAIN wordlist[r] : Replays(r, wordlist[r][i])

\* C4's case: a draw after a path, longer than the context, that no word of
\* the list starts with.
C4_Witness ==
    \E r \in Runs :
        /\ Drawing(r)
        /\ Len(word[r]) > CONTEXT_LENGTH + 1
        /\ \A i \in DOMAIN wordlist[r] :
              Len(wordlist[r][i]) < Len(word[r]) - 1
              \/ SubSeq(wordlist[r][i], 1, Len(word[r]) - 1) # Tail(word[r])

ExampleWords ==
    {<<"c", "a", "t">>, <<"c", "a", "t", "s">>,
     <<"d", "o", "g">>, <<"d", "o", "g", "s">>}

\* C5 as stated: for the example text and context length 2 the word set is
\* {cat, cats, dog, dogs}, "#c" maps to {a: 1} and "ca" to {t: 2}.
C5_ExampleAsStated ==
    \A r \in Runs :
        (Built(r) /\ CONTEXT_LENGTH = 2 /\ text = ExampleText)
            => /\ SetOf(wordlist[r]) = ExampleWords
               /\ model[r][<<"#", "c">>] = << <<"a", 1>> >>
               /\ model[r][<<"c", "a">>] = << <<"t", 2>> >>

\* C5 as amended: for the example text and context length 2 the word set is
\* {cat, cats, dog, dogs}, "#c" maps to {a: 2} and "ca" to {t: 2}.
C5_Example ==
    \A r \in Runs :
        (Built(r) /\ CONTEXT_LENGTH = 2 /\ text = ExampleText)
            => /\ SetOf(wordlist[r]) = ExampleWords
               /\ model[r][<<"#", "c">>] = << <<"a", 2>> >>
               /\ model[r][<<"c", "a">>] = << <<"t", 2>> >>

\* C5's case: the model of the example text has been built with context
\* length 2.
C5_Witness ==
    /\ pc[1] = "length_distribution"
    /\ CONTEXT_LENGTH = 2
    /\ text = ExampleText

\* C6: from the moment build_model has returned, the model is what
\* build_model returns for the word list, whatever has been sampled since.
C6_ModelUnchanged ==
    \A r \in Runs :
        Built(r) => model[r] = build_model(wordlist[r], CONTEXT_LENGTH)

\* C6's case: a terminator has just been drawn, from a context where its
\* weight was boosted, after an earlier word was accepted.
C6_Witness ==
    \E r \in Runs : Finished(r) /\ Len(generated[r]) > 0 /\ Len(word[r]) > 3

\* C7: a run that returns a list returns exactly count words, and for count
\* 0 it returns the empty list without having called generate_word.
C7_ExactCount ==
    \A r \in Runs :
        pc[r] = "returned"
            => /\ Len(generated[r]) = count
               /\ count = 0 => (generated[r] = <<>> /\ ~ sampled[r])

\* C7's case: a run returns after more than one word was asked for.
C7_Witness == \E r \in Runs : pc[r] = "returned" /\ count > 1 /\ sampled[r]

\* The runs for which parse_words has returned a list.
Parsed(r) == pc[r] \notin {"idle", "parse_words", "null"}

\* The characters of the string s.
Chars(s) == {s[i] : i \in DOMAIN s}

\* C8: every word parse_words returns holds only letters, combining marks,
\* apostrophes and hyphens, is longer than the context length, begins and
\* ends with no hyphen, and is in the list once.
C8_WordSet ==
    \A r \in Runs :
        Parsed(r) =>
            \A i \in DOMAIN wordlist[r] :
                LET w == wordlist[r][i]
                IN  /\ \A c \in Chars(w) :
                          \/ Category(c) \in {"Ll", "Lu", "Lt", "Lm", "Lo", "Mn"}
                          \/ c \in {"'", "-"}
                    /\ Len(w) > CONTEXT_LENGTH
                    /\ Strip(w, {"-"}) = w
                    /\ \A j \in DOMAIN wordlist[r] : i # j => wordlist[r][j] # w

\* C8's case: a word that keeps a combining mark, from a text that also
\* held a hyphen.
C8_Witness ==
    \E r \in Runs :
        /\ Parsed(r)
        /\ "-" \in Chars(text)
        /\ \E i \in DOMAIN wordlist[r] : "U+0301" \in Chars(wordlist[r][i])

\* The lengths of the words of run r.
Lengths(r) == {Len(wordlist[r][i]) : i \in DOMAIN wordlist[r]}

\* C9: the list length_distribution returns for a word list that is not
\* empty starts with 0, has the indices 0 .. the greatest word length, and
\* never decreases; it increases at L exactly when a word has length L.
C9_Distribution ==
    \A r \in Runs :
        Estimated(r) =>
            LET d == distribution[r]
            IN  /\ d[0] = 0
                /\ \E top \in Lengths(r) :
                      /\ \A n \in Lengths(r) : n <= top
                      /\ DOMAIN d = 0..top
                /\ \A L \in DOMAIN d \ {0} :
                      /\ d[L] >= d[L - 1]
                      /\ d[L] > d[L - 1] <=> L \in Lengths(r)

\* C9's case: a distribution that stays level at a length no word has,
\* between two lengths that words have.
C9_Witness ==
    \E r \in Runs :
        /\ Estimated(r)
        /\ \E L \in DOMAIN distribution[r] \ {0} :
              /\ distribution[r][L] = distribution[r][L - 1]
              /\ distribution[r][L - 1] > 0

\* C10: at every draw the weights, after the terminator's boost, have a
\* positive total.
C10_PositiveTotal ==
    \A r \in Runs :
        (Drawing(r) /\ LookedUp(r) \in DOMAIN model[r])
            => Total(LocalWeights(model[r], LookedUp(r), Len(word[r]),
                                  distribution[r]).weights) > 0

=============================================================================
